---- MODULE Spec2Model ----
(***************************************************************************)
(* A model of droidwook.py: covering the letters of a phrase with          *)
(* dictionary words.  Phrase positions keep Python's numbering 0..N-1; a   *)
(* string is a sequence of one-character strings, so position i of a       *)
(* string s is s[i + 1].                                                   *)
(***************************************************************************)
EXTENDS Integers, Sequences, FiniteSets, TLC

VARIABLES
    original_phrase,  \* MatchResults.original_phrase
    phrase,           \* MatchResults.phrase (lower case)
    count,            \* MatchResults.count
    allow_less,       \* MatchResults.allow_less
    dictionary,       \* WordMatcher._dictionary
    maps,             \* MatchResults.maps
    initial_map,      \* MatchResults.initial_map
    words,            \* MatchResults.words
    trimmed,          \* print_matches: trimmed_dictionary
    wordIdx,          \* print_matches: position of the loop over trimmed_dictionary
    current_words,    \* the list shared by the _iterate_matches calls
    frames,           \* the active _iterate_matches calls, outermost first
    outerI,           \* iterate_all_matches: next i of its loop
    emitted,          \* the lists yielded by iterate_all_matches so far
    pc,               \* position inside print_matches
    loop,             \* the locals of make_letter_maps while it runs
    mainpc,           \* position inside main
    mode,             \* main: "cli" (phrase argument given) or "interactive"
    fs,               \* the dictionary source as the file system holds it
    exc               \* the exception that left main, or "none"

vars == <<original_phrase, phrase, count, allow_less, dictionary, maps,
          initial_map, words, trimmed, wordIdx, current_words, frames, outerI,
          emitted, pc, loop, mainpc, mode, fs, exc>>

----------------------------------------------------------------------------
(* Bounds of the model *)

MaxLen == 3       \* longest phrase
MaxLines == 2     \* most lines in a dictionary file
MaxCount == 2     \* largest count

----------------------------------------------------------------------------
(* Characters and strings *)

\* string.ascii_lowercase, restricted to the letters the model uses.
ascii_lowercase == <<"a", "b", "c", "t">>

Letters == {ascii_lowercase[k] : k \in 1..Len(ascii_lowercase)}

\* Characters a phrase is drawn from: a letter, an upper-case letter, a
\* non-letter.
PhraseChars == {"a", "B", " "}

\* Lines a dictionary file is made of, line ends dropped: an empty line, a
\* letter, an upper-case letter, a line with a trailing space, two-letter
\* words, a line with a character that is not a letter.
Lines == {<<>>, <<"a">>, <<"B">>, <<"a", " ">>, <<"a", "a">>, <<"a", "b">>,
          <<" ", "a">>}

SeqsUpTo(S, n) == UNION {[1..k -> S] : k \in 0..n}

\* str.lower on one character.
lower(c) == CASE c = "A" -> "a" [] c = "B" -> "b" [] c = "C" -> "c"
              [] c = "T" -> "t" [] OTHER -> c

Lower(s) == [k \in 1..Len(s) |-> lower(s[k])]

\* Code points, for sorted().
Ord(c) == CASE c = " " -> 32 [] c = "A" -> 65 [] c = "B" -> 66 [] c = "C" -> 67
            [] c = "T" -> 84 [] c = "a" -> 97 [] c = "b" -> 98 [] c = "c" -> 99
            [] c = "t" -> 116 [] OTHER -> 0

IsSpace(c) == c \in {" ", "\n", "\t"}

RECURSIVE rstrip(_)
rstrip(s) == IF s # <<>> /\ IsSpace(s[Len(s)])
             THEN rstrip(SubSeq(s, 1, Len(s) - 1))
             ELSE s

\* Python's order on strings.
RECURSIVE StrLess(_, _)
StrLess(u, v) ==
    IF u = <<>> THEN v # <<>>
    ELSE IF v = <<>> THEN FALSE
    ELSE IF u[1] # v[1] THEN Ord(u[1]) < Ord(v[1])
    ELSE StrLess(Tail(u), Tail(v))

RECURSIVE SortedList(_)
SortedList(S) ==
    IF S = {} THEN <<>>
    ELSE LET m == CHOOSE x \in S : \A y \in S \ {x} : StrLess(x, y)
         IN <<m>> \o SortedList(S \ {m})

Range(s) == {s[k] : k \in 1..Len(s)}

\* The numbers of S in ascending order.
RECURSIVE AscList(_)
AscList(S) ==
    IF S = {} THEN <<>>
    ELSE LET m == CHOOSE x \in S : \A y \in S : x <= y
         IN <<m>> \o AscList(S \ {m})

is_letter(letter) == letter \in Letters

----------------------------------------------------------------------------
(* make_letter_maps *)

\* A dict without keys.
EmptyDict == [x \in {} |-> <<>>]

None == [none |-> TRUE, val |-> <<>>]
Some(v) == [none |-> FALSE, val |-> v]

\* The locals of make_letter_maps before the first iteration.
MapsStart(p) ==
    [maps |-> [k \in 1..Len(p) |-> None], last |-> None, lastLetter |-> "",
     lastIndex |-> 0, i |-> Len(p) - 1]

\* A variant of the iteration that records the position it is at instead of
\* the letter position met before it.
MapsStep_self(p, st) ==
    LET letter == p[st.i + 1] IN
    IF is_letter(letter)
    THEN LET d == IF st.last.none
                  THEN EmptyDict
                  ELSE LET l == st.last.val IN
                       IF letter \in DOMAIN l
                       THEN [l EXCEPT ![letter] = Append(@, st.i)]
                       ELSE [x \in DOMAIN l \cup {letter} |->
                               IF x = letter THEN <<st.i>> ELSE l[x]]
         IN [maps |-> [st.maps EXCEPT ![st.i + 1] = Some(d)], last |-> Some(d),
             lastLetter |-> letter, lastIndex |-> st.i, i |-> st.i - 1]
    ELSE [st EXCEPT !.maps[st.i + 1] = None, !.i = st.i - 1]

\* One iteration of the loop of make_letter_maps, at position st.i.
MapsStep(p, st) ==
    LET letter == p[st.i + 1] IN
    IF is_letter(letter)
    THEN LET d == IF st.last.none
                  THEN EmptyDict
                  ELSE LET l == st.last.val IN
                       IF st.lastLetter \in DOMAIN l
                       THEN [l EXCEPT ![st.lastLetter] = Append(@, st.lastIndex)]
                       ELSE [x \in DOMAIN l \cup {st.lastLetter} |->
                               IF x = st.lastLetter THEN <<st.lastIndex>> ELSE l[x]]
         IN [maps |-> [st.maps EXCEPT ![st.i + 1] = Some(d)], last |-> Some(d),
             lastLetter |-> letter, lastIndex |-> st.i, i |-> st.i - 1]
    ELSE [st EXCEPT !.maps[st.i + 1] = None, !.i = st.i - 1]

RECURSIVE MapsRun(_, _)
MapsRun(p, st) == IF st.i < 0 THEN st ELSE MapsRun(p, MapsStep(p, st))

make_letter_maps(p) == MapsRun(p, MapsStart(p)).maps

----------------------------------------------------------------------------
(* LetterInventory, read_dict, set_dict, trim_dictionary *)

\* str.count for a one-character argument.
CountOf(word, letter) == Cardinality({k \in 1..Len(word) : word[k] = letter})

\* LetterInventory.__init__: the letters dict.
LetterInventory(word) ==
    IF word = <<>> THEN EmptyDict
    ELSE [letter \in Letters |-> CountOf(word, letter)]

\* LetterInventory.sub from letter number k on: "KeyError" when get() fails,
\* "None" when a count is short, "ok" with the difference otherwise.
RECURSIVE SubFrom(_, _, _, _)
SubFrom(self, other, k, difference) ==
    IF k > Len(ascii_lowercase) THEN [tag |-> "ok", letters |-> difference]
    ELSE LET letter == ascii_lowercase[k] IN
         IF letter \notin DOMAIN self \/ letter \notin DOMAIN other
         THEN [tag |-> "KeyError", letters |-> EmptyDict]
         ELSE IF self[letter] - other[letter] < 0
         THEN [tag |-> "None", letters |-> EmptyDict]
         ELSE SubFrom(self, other, k + 1,
                      [x \in DOMAIN difference \cup {letter} |->
                         IF x = letter THEN self[letter] - other[letter]
                         ELSE difference[x]])

\* A variant of sub whose length test is >= instead of >.
sub_ge(self, other) ==
    IF Cardinality(DOMAIN other) >= Cardinality(DOMAIN self)
    THEN [tag |-> "None", letters |-> EmptyDict]
    ELSE SubFrom(self, other, 1, EmptyDict)

sub(self, other) ==
    IF Cardinality(DOMAIN other) > Cardinality(DOMAIN self)
    THEN [tag |-> "None", letters |-> EmptyDict]
    ELSE SubFrom(self, other, 1, EmptyDict)

\* read_dict on a readable file holding the given lines.
read_dict(lines) == SortedList({rstrip(Lower(l)) : l \in Range(lines)})

\* WordMatcher.set_dict: _dictionary.
set_dict(list) == [k \in 1..Len(list) |-> Lower(list[k])]

\* WordMatcher.set_dict: _dictionary_inventories.
dictionary_inventories(dict) == [k \in 1..Len(dict) |-> LetterInventory(dict[k])]

\* trim_dictionary from word number k on.
RECURSIVE TrimFrom(_, _, _, _)
TrimFrom(inventory, dict, k, trimmed_dict) ==
    IF k > Len(dict) THEN [raised |-> FALSE, list |-> trimmed_dict]
    ELSE LET r == sub(inventory, dictionary_inventories(dict)[k]) IN
         IF r.tag = "KeyError" THEN [raised |-> TRUE, list |-> <<>>]
         ELSE TrimFrom(inventory, dict, k + 1,
                       IF r.tag = "ok" THEN Append(trimmed_dict, dict[k])
                       ELSE trimmed_dict)

trim_dictionary(p, dict) == TrimFrom(LetterInventory(p), dict, 1, <<>>)

----------------------------------------------------------------------------
(* MatchResults.__init__ and the placement of one word *)

\* The positions of letter in p, ascending (the inner loop of __init__).
PositionsOf(p, letter) == AscList({k \in 0..(Len(p) - 1) : p[k + 1] = letter})

\* A variant of initial_map that collects the positions of a letter once for
\* every occurrence of the letter in the phrase.
InitialMap_peroccurrence(p) ==
    [letter \in {l \in Letters : PositionsOf(p, l) # <<>>} |->
        IF CountOf(p, letter) >= 2
        THEN PositionsOf(p, letter) \o PositionsOf(p, letter)
        ELSE PositionsOf(p, letter)]

\* MatchResults.initial_map.
InitialMap(p) ==
    [letter \in {l \in Letters : PositionsOf(p, l) # <<>>} |-> PositionsOf(p, letter)]

\* MatchResults.words as __init__ leaves it.
InitialWords(p) ==
    [k \in 1..Len(p) |-> IF is_letter(p[k]) THEN Some(<<>>) ELSE None]

\* _print_word_matches: the indices lists it hands to add_match, in order.
RECURSIVE print_word_matches(_, _, _, _, _)
RECURSIVE OverCandidates(_, _, _, _, _)
print_word_matches(word, word_index, index, indices, m) ==
    IF word_index = Len(word) THEN <<indices>>
    ELSE IF word[word_index + 1] \in DOMAIN m[index + 1].val
    THEN OverCandidates(word, word_index, m[index + 1].val[word[word_index + 1]],
                        indices, m)
    ELSE <<>>

OverCandidates(word, word_index, candidates, indices, m) ==
    IF candidates = <<>> THEN <<>>
    ELSE print_word_matches(word, word_index + 1, candidates[1],
                            Append(indices, candidates[1]), m)
         \o OverCandidates(word, word_index, Tail(candidates), indices, m)

\* MatchResults.add_match without printing, for each list of a sequence.
RECURSIVE add_matches(_, _, _)
add_matches(w, found, index) ==
    IF found = <<>> THEN w
    ELSE add_matches([w EXCEPT ![index + 1] = Some(Append(@.val, found[1]))],
                     Tail(found), index)

\* The body of the loop over trimmed_dictionary in print_matches, for the
\* start positions left in next_indices.
RECURSIVE PlaceFrom(_, _, _, _)
PlaceFrom(w, word, next_indices, m) ==
    IF next_indices = <<>> THEN w
    ELSE LET i == next_indices[1] IN
         PlaceFrom(add_matches(w, print_word_matches(word, 1, i, <<i>>, m), i),
                   word, Tail(next_indices), m)

----------------------------------------------------------------------------
(* Inputs *)

Phrases == SeqsUpTo(PhraseChars, MaxLen)

\* The contents of a readable dictionary file: its lines, line ends dropped.
Files == SeqsUpTo(Lines, MaxLines)

\* The example of the documentation: phrase "cat" and six words.
CatPhrase == <<"c", "a", "t">>
CatFile == << <<"c">>, <<"a">>, <<"t">>, <<"c", "a">>, <<"a", "t">>,
              <<"c", "a", "t">> >>

EngineIdle ==
    /\ phrase = <<>>
    /\ maps = <<>>
    /\ initial_map = EmptyDict
    /\ words = <<>>
    /\ trimmed = <<>>
    /\ wordIdx = 1
    /\ current_words = <<>>
    /\ frames = <<>>
    /\ outerI = 0
    /\ emitted = <<>>
    /\ loop = MapsStart(<<>>)

\* print_matches called on a WordMatcher whose dictionary was read from a file.
Init ==
    /\ \/ /\ original_phrase \in Phrases
          /\ \E f \in Files : dictionary = set_dict(read_dict(f))
          /\ count \in 0..MaxCount
          /\ allow_less \in BOOLEAN
       \/ /\ original_phrase = CatPhrase
          /\ dictionary = set_dict(read_dict(CatFile))
          /\ count = 0
          /\ allow_less = TRUE
    /\ EngineIdle
    /\ pc = "start"
    /\ mainpc = "api"
    /\ mode = "api"
    /\ fs = [status |-> "ok", lines |-> <<>>]
    /\ exc = "none"

mainVars == <<mainpc, mode, fs>>
callVars == <<original_phrase, count, allow_less, dictionary>>

----------------------------------------------------------------------------
(* print_matches up to the end of the placement of the words *)

\* MatchResults(phrase, count, allow_less) and trim_dictionary.
PrintMatchesBegin ==
    /\ pc = "start"
    /\ phrase' = Lower(original_phrase)
    /\ maps' = make_letter_maps(phrase')
    /\ initial_map' = InitialMap(phrase')
    /\ words' = InitialWords(phrase')
    /\ LET t == trim_dictionary(phrase', dictionary) IN
       IF t.raised
       THEN pc' = "raised" /\ exc' = "KeyError" /\ trimmed' = <<>>
       ELSE pc' = "place" /\ exc' = exc /\ trimmed' = t.list
    /\ wordIdx' = 1
    /\ UNCHANGED <<callVars, current_words, frames, outerI, emitted, loop, mainVars>>

\* One iteration of the loop over trimmed_dictionary.
PlaceWord ==
    /\ pc = "place"
    /\ wordIdx <= Len(trimmed)
    /\ LET word == trimmed[wordIdx] IN
       words' = IF word[1] \in DOMAIN initial_map
                THEN PlaceFrom(words, word, initial_map[word[1]], maps)
                ELSE words
    /\ wordIdx' = wordIdx + 1
    /\ UNCHANGED <<callVars, phrase, maps, initial_map, trimmed, current_words, frames,
                   outerI, emitted, pc, loop, mainVars, exc>>

----------------------------------------------------------------------------
(* iterate_all_matches *)

\* A variant of next_index that returns the last index itself.
next_index_last(word) == word[Len(word)]

\* next_index: one past the last index of a placement.
next_index(word) == word[Len(word)] + 1

\* A variant of the yield condition that does not look at allow_less.
ShouldYield_anyless(n) == n < count \/ count < 1 \/ n = count

\* A variant of the yield condition without its last disjunct.
ShouldYield_nofull(n) == (allow_less /\ n < count) \/ count < 1

\* The condition of the yield in _iterate_matches, for a list of n words.
ShouldYield(n) == (allow_less /\ n < count) \/ count < 1 \/ n = count

\* A variant of the descent condition with <= instead of <.
ShouldDescend_le(n) == count < 1 \/ n <= count

\* The condition of the descent in _iterate_matches, for a list of n words.
ShouldDescend(n) == count < 1 \/ n < count

\* A variant of the range that tries the position start only.
ScanStop_one(start) == IF start < Len(phrase) THEN start + 1 ELSE Len(phrase)

\* The end of range(start, len(self.phrase)) in _iterate_matches.
ScanStop(start) == Len(phrase)

NewFrame(index) == [index |-> index, w |-> 1, scan |-> 0, stop |-> 0, at |-> "for"]

Top == frames[Len(frames)]

SetTop(f) == [frames EXCEPT ![Len(frames)] = f]

\* print_matches starts consuming words.iterate_all_matches().
IterateAllBegin ==
    /\ pc = "place"
    /\ wordIdx > Len(trimmed)
    /\ pc' = "enum"
    /\ outerI' = 0
    /\ UNCHANGED <<callVars, phrase, maps, initial_map, words, trimmed, wordIdx,
                   current_words, frames, emitted, loop, mainVars, exc>>

\* iterate_all_matches: the next i; iterate_matches(i) calls
\* _iterate_matches(i, []).
IterateMatches ==
    /\ pc = "enum"
    /\ frames = <<>>
    /\ outerI < Len(phrase)
    /\ frames' = <<NewFrame(outerI)>>
    /\ current_words' = <<>>
    /\ outerI' = outerI + 1
    /\ UNCHANGED <<callVars, phrase, maps, initial_map, words, trimmed, wordIdx,
                   emitted, pc, loop, mainVars, exc>>

\* iterate_all_matches is exhausted.
IterateAllEnd ==
    /\ pc = "enum"
    /\ frames = <<>>
    /\ outerI >= Len(phrase)
    /\ pc' = "done"
    /\ UNCHANGED <<callVars, phrase, maps, initial_map, words, trimmed, wordIdx,
                   current_words, frames, outerI, emitted, loop, mainVars, exc>>

HasWord(f) == ~words[f.index + 1].none /\ f.w <= Len(words[f.index + 1].val)

\* _iterate_matches: the next word of word_list is appended, and the list is
\* yielded when the condition holds.
Push ==
    /\ pc = "enum"
    /\ frames # <<>>
    /\ Top.at = "for"
    /\ HasWord(Top)
    /\ LET word == words[Top.index + 1].val[Top.w]
           cw == Append(current_words, word)
       IN /\ current_words' = cw
          /\ emitted' = IF ShouldYield(Len(cw)) THEN Append(emitted, cw)
                        ELSE emitted
          /\ frames' = IF ShouldDescend(Len(cw))
                       THEN SetTop([Top EXCEPT !.at = "scan",
                                               !.scan = next_index(word),
                                               !.stop = ScanStop(next_index(word))])
                       ELSE SetTop([Top EXCEPT !.at = "pop"])
    /\ UNCHANGED <<callVars, phrase, maps, initial_map, words, trimmed, wordIdx,
                   outerI, pc, loop, mainVars, exc>>

\* _iterate_matches: the inner loop calls _iterate_matches(i, current_words).
Descend ==
    /\ pc = "enum"
    /\ frames # <<>>
    /\ Top.at = "scan"
    /\ Top.scan < Top.stop
    /\ frames' = Append(SetTop([Top EXCEPT !.scan = @ + 1]), NewFrame(Top.scan))
    /\ UNCHANGED <<callVars, phrase, maps, initial_map, words, trimmed, wordIdx,
                   current_words, outerI, emitted, pc, loop, mainVars, exc>>

\* _iterate_matches: current_words.pop() and on to the next word.
Pop ==
    /\ pc = "enum"
    /\ frames # <<>>
    /\ \/ Top.at = "pop"
       \/ Top.at = "scan" /\ Top.scan >= Top.stop
    /\ current_words' = SubSeq(current_words, 1, Len(current_words) - 1)
    /\ frames' = SetTop([Top EXCEPT !.at = "for", !.w = @ + 1])
    /\ UNCHANGED <<callVars, phrase, maps, initial_map, words, trimmed, wordIdx,
                   outerI, emitted, pc, loop, mainVars, exc>>

\* _iterate_matches returns: word_list is None or has no more words.
Return ==
    /\ pc = "enum"
    /\ frames # <<>>
    /\ Top.at = "for"
    /\ ~HasWord(Top)
    /\ frames' = SubSeq(frames, 1, Len(frames) - 1)
    /\ UNCHANGED <<callVars, phrase, maps, initial_map, words, trimmed, wordIdx,
                   current_words, outerI, emitted, pc, loop, mainVars, exc>>

\* The steps of iterate_all_matches once print_matches has begun consuming it.
Enumerate == IterateMatches \/ IterateAllEnd \/ Push \/ Descend \/ Pop \/ Return

Next ==
    \/ PrintMatchesBegin
    \/ PlaceWord
    \/ IterateAllBegin
    \/ IterateMatches
    \/ IterateAllEnd
    \/ Push
    \/ Descend
    \/ Pop
    \/ Return

Spec == Init /\ [][Next]_vars

\* print_matches consumes iterate_all_matches to its end.
FairSpec == Spec /\ WF_vars(Enumerate)

----------------------------------------------------------------------------
(* make_letter_maps, iteration by iteration *)

InitMaps ==
    /\ original_phrase \in Phrases
    /\ phrase = Lower(original_phrase)
    /\ loop = MapsStart(phrase)
    /\ pc = "maps"
    /\ count = 0
    /\ allow_less = TRUE
    /\ dictionary = <<>>
    /\ maps = <<>>
    /\ initial_map = EmptyDict
    /\ words = <<>>
    /\ trimmed = <<>>
    /\ wordIdx = 1
    /\ current_words = <<>>
    /\ frames = <<>>
    /\ outerI = 0
    /\ emitted = <<>>
    /\ mainpc = "api"
    /\ mode = "api"
    /\ fs = [status |-> "ok", lines |-> <<>>]
    /\ exc = "none"

\* One iteration of the loop of make_letter_maps.
MapsLoop ==
    /\ pc = "maps"
    /\ loop.i >= 0
    /\ loop' = MapsStep(phrase, loop)
    /\ UNCHANGED <<callVars, phrase, maps, initial_map, words, trimmed, wordIdx,
                   current_words, frames, outerI, emitted, pc, mainVars, exc>>

\* make_letter_maps returns maps, which MatchResults.__init__ stores.
MapsReturn ==
    /\ pc = "maps"
    /\ loop.i < 0
    /\ maps' = loop.maps
    /\ pc' = "mapsdone"
    /\ UNCHANGED <<callVars, phrase, initial_map, words, trimmed, wordIdx,
                   current_words, frames, outerI, emitted, loop, mainVars, exc>>

NextMaps == MapsLoop \/ MapsReturn

SpecMaps == InitMaps /\ [][NextMaps]_vars

----------------------------------------------------------------------------
(* main *)

MainMaxLen == 2   \* longest phrase given to main

MainPhrases == SeqsUpTo(PhraseChars, MainMaxLen)

\* Dictionary files of lines of at most one character.
MainFiles == SeqsUpTo({l \in Lines : Len(l) <= 1}, MaxLines)

FsStates ==
    {[status |-> "missing", lines |-> <<>>], [status |-> "denied", lines |-> <<>>]}
    \cup {[status |-> "ok", lines |-> f] : f \in MainFiles}

\* What open() raises in read_dict, or "none".
OpenError(f) == CASE f.status = "missing" -> "FileNotFoundError"
                  [] f.status = "denied" -> "PermissionError"
                  [] OTHER -> "none"

InitMain ==
    /\ mode \in {"cli", "interactive"}
    /\ fs \in FsStates
    /\ IF mode = "cli"
       THEN original_phrase \in MainPhrases \ {<<>>} /\ count \in 0..MaxCount
       ELSE original_phrase = <<>> /\ count = 0
    /\ allow_less = TRUE
    /\ dictionary = <<>>
    /\ EngineIdle
    /\ pc = "idle"
    /\ mainpc = "start"
    /\ exc = "none"

\* Nothing of an earlier call of print_matches is kept.
EngineReset ==
    /\ phrase' = <<>>
    /\ maps' = <<>>
    /\ initial_map' = EmptyDict
    /\ words' = <<>>
    /\ trimmed' = <<>>
    /\ wordIdx' = 1
    /\ current_words' = <<>>
    /\ frames' = <<>>
    /\ outerI' = 0
    /\ emitted' = <<>>
    /\ loop' = MapsStart(<<>>)

engineVars == <<phrase, maps, initial_map, words, trimmed, wordIdx,
                current_words, frames, outerI, emitted, loop>>

\* main with a phrase argument: the dictionary is loaded inside try/except
\* FileNotFoundError, then print_matches is called.
MainCli ==
    /\ mainpc = "start"
    /\ mode = "cli"
    /\ IF OpenError(fs) = "FileNotFoundError"
       THEN /\ mainpc' = "reported"
            /\ UNCHANGED <<dictionary, pc, exc>>
       ELSE IF OpenError(fs) # "none"
       THEN /\ mainpc' = "crashed"
            /\ exc' = OpenError(fs)
            /\ UNCHANGED <<dictionary, pc>>
       ELSE /\ mainpc' = "printing"
            /\ dictionary' = set_dict(read_dict(fs.lines))
            /\ pc' = "start"
            /\ exc' = exc
    /\ UNCHANGED <<original_phrase, count, allow_less, engineVars, mode, fs>>

\* main with a phrase argument returns after print_matches.
MainCliReturn ==
    /\ mainpc = "printing"
    /\ mode = "cli"
    /\ pc = "done"
    /\ mainpc' = "returned"
    /\ UNCHANGED <<callVars, engineVars, pc, mode, fs, exc>>

\* An exception raised inside print_matches leaves main.
MainRaise ==
    /\ mainpc = "printing"
    /\ pc = "raised"
    /\ mainpc' = "crashed"
    /\ UNCHANGED <<callVars, engineVars, pc, mode, fs, exc>>

\* One turn of the interactive loop up to the call of print_matches:
\* WordMatcher(), the prompts, the call.
MainLoop ==
    /\ mode = "interactive"
    /\ mainpc = "start" \/ (mainpc = "printing" /\ pc = "done")
    /\ IF OpenError(fs) # "none"
       THEN /\ mainpc' = "crashed"
            /\ exc' = OpenError(fs)
            /\ UNCHANGED <<callVars, engineVars, pc>>
       ELSE \E p \in MainPhrases, c \in 0..MaxCount, less \in BOOLEAN :
            /\ c <= 1 => less
            /\ dictionary' = set_dict(read_dict(fs.lines))
            /\ exc' = exc
            /\ IF p = <<>>
               THEN /\ mainpc' = "returned"
                    /\ UNCHANGED <<original_phrase, count, allow_less, engineVars, pc>>
               ELSE /\ mainpc' = "printing"
                    /\ original_phrase' = p
                    /\ count' = c
                    /\ allow_less' = less
                    /\ EngineReset
                    /\ pc' = "start"
    /\ UNCHANGED <<mode, fs>>

NextMain ==
    \/ MainCli
    \/ MainCliReturn
    \/ MainRaise
    \/ MainLoop
    \/ Next

SpecMain == InitMain /\ [][NextMain]_vars

----------------------------------------------------------------------------
(* Vocabulary of the properties *)

Last(p) == p[Len(p)]

\* Each next placement starts after the last index of the one before it.
NonOverlapping(c) == \A k \in 1..(Len(c) - 1) : c[k + 1][1] > Last(c[k])

OrderedByStart(c) == \A k \in 1..(Len(c) - 1) : c[k + 1][1] > c[k][1]

\* The placements held by words, whatever their start position.
Stored == UNION {Range(words[k].val) : k \in 1..Len(words)}

\* Every sequence of one or more stored placements obeying the rule.
ValidSequences ==
    {c \in UNION {[1..n -> Stored] : n \in 1..Len(phrase)} : NonOverlapping(c)}

Emitted == Range(emitted)

Exhausted == pc = "done"

\* The characters of the lower-case phrase at the indices of l.
Spell(l) == [k \in 1..Len(l) |-> phrase[l[k] + 1]]

\* Every strictly increasing list of indices of the phrase.
IndexLists == {AscList(S) : S \in SUBSET (0..(Len(phrase) - 1))}

\* Those that hold letter positions only.
LetterLists == {l \in IndexLists : \A k \in 1..Len(l) : is_letter(phrase[l[k] + 1])}

\* The loop over trimmed_dictionary has ended.
Placed == pc \in {"enum", "done"}

NoRepeat(s) == \A j, k \in 1..Len(s) : j < k => s[j] # s[k]

----------------------------------------------------------------------------
(* Properties *)

\* C1: every list yielded by iterate_all_matches is ordered by start index and
\* non-overlapping: each next placement's first index is strictly greater than
\* the last index of the placement before it.
C1_NonOverlapping ==
    \A k \in 1..Len(emitted) :
        NonOverlapping(emitted[k]) /\ OrderedByStart(emitted[k])

C1_Witness ==
    /\ Exhausted
    /\ \E k \in 1..Len(emitted) :
          Len(emitted[k]) >= 2 /\ emitted[k][2][1] > Last(emitted[k][1]) + 1

CatExpected ==
    { << <<0>> >>, << <<1>> >>, << <<2>> >>, << <<0, 1>> >>, << <<1, 2>> >>,
      << <<0, 1, 2>> >>, << <<0>>, <<1>> >>, << <<0>>, <<2>> >>,
      << <<0>>, <<1>>, <<2>> >>, << <<0>>, <<1, 2>> >>, << <<0, 1>>, <<2>> >>,
      << <<1>>, <<2>> >> }

\* C2: with count 0, once iterate_all_matches is exhausted it has yielded
\* every sequence of one or more stored placements that obeys the non-overlap
\* rule, and nothing else; for "cat" with c, a, t, ca, at, cat these are the
\* lists of the example (and [a, t]).
C2_UnboundedComplete ==
    (Exhausted /\ count < 1) =>
        /\ Emitted = ValidSequences
        /\ original_phrase = CatPhrase => Emitted = CatExpected

C2_Witness ==
    /\ Exhausted
    /\ count = 0
    /\ original_phrase = CatPhrase
    /\ << <<0>>, <<1>>, <<2>> >> \in Emitted
    /\ << <<0>>, <<2>> >> \in Emitted

\* C3: with count = K >= 1 and allow_less false, every yielded list has exactly
\* K placements; for "a a" with the word a and K = 2 the only list is the
\* placements at 0 and at 2.
C3_ExactLength ==
    (count >= 1 /\ ~allow_less) =>
        /\ \A k \in 1..Len(emitted) : Len(emitted[k]) = count
        /\ (/\ Exhausted
            /\ phrase = <<"a", " ", "a">>
            /\ dictionary = << <<"a">> >>
            /\ count = 2) => emitted = << << <<0>>, <<2>> >> >>

C3_Witness ==
    /\ Exhausted
    /\ ~allow_less
    /\ count = 2
    /\ phrase = <<"a", " ", "a">>
    /\ dictionary = << <<"a">> >>
    /\ Len(emitted) = 1

\* C4: with count = K >= 1 and allow_less true, no yielded list is longer than
\* K, and once iterate_all_matches is exhausted every non-overlapping sequence
\* of 1..K stored placements has been yielded.
C4_PrefixAllowed ==
    (count >= 1 /\ allow_less) =>
        /\ \A k \in 1..Len(emitted) : Len(emitted[k]) \in 1..count
        /\ Exhausted => Emitted = {c \in ValidSequences : Len(c) <= count}

C4_Witness ==
    /\ Exhausted
    /\ allow_less
    /\ count = 2
    /\ \E c \in Emitted : Len(c) = 1
    /\ \E c \in Emitted : Len(c) = 2
    /\ \E c \in ValidSequences : Len(c) > count

\* C5 as stated: after the placement phase the placements stored for a word W
\* of the dictionary are exactly the strictly increasing index lists of the
\* phrase whose lower-case characters spell W.
C5_AllIndexLists ==
    Placed =>
        /\ \A p \in Stored : p \in IndexLists /\ Spell(p) \in Range(dictionary)
        /\ \A W \in Range(dictionary) :
              \A l \in IndexLists : Spell(l) = W => l \in Stored

\* C5, amended: after the placement phase the placements stored for a word W
\* of the dictionary are exactly the strictly increasing lists of letter
\* positions of the phrase whose lower-case characters spell W.
C5_AllLetterLists ==
    Placed =>
        /\ \A p \in Stored : p \in LetterLists /\ Spell(p) \in Range(dictionary)
        /\ \A W \in Range(dictionary) :
              \A l \in LetterLists : Spell(l) = W => l \in Stored

C5_Witness ==
    /\ Placed
    /\ Len(dictionary) = 2
    /\ \E p, q \in Stored : p # q /\ Spell(p) = Spell(q) /\ Len(p) = 2 /\ p[2] > p[1] + 1

\* C6: for a dictionary without duplicate words, no list is yielded twice by
\* iterate_all_matches.
C6_NoDuplicates == NoRepeat(dictionary) => NoRepeat(emitted)

C6_Witness ==
    /\ Exhausted
    /\ NoRepeat(dictionary)
    /\ Len(dictionary) = 2
    /\ Len(emitted) >= 4

\* C8: an empty word in the dictionary raises no error in print_matches.
C8_EmptyWordRejected == (<<>> \in Range(dictionary)) => pc # "raised"

\* C10: the depth of the placement stack never exceeds count when count >= 1
\* nor the phrase length when count < 1, the stack is empty once
\* iterate_all_matches is exhausted, and the enumeration, once begun, is
\* exhausted.
C10_Termination ==
    /\ [](Len(current_words) <= (IF count >= 1 THEN count ELSE Len(phrase)))
    /\ [](Exhausted => (current_words = <<>> /\ frames = <<>>))
    /\ (pc = "enum") ~> Exhausted

C10_Witness ==
    /\ pc = "enum"
    /\ count = 2
    /\ Len(current_words) = 2
    /\ Len(phrase) = 3

\* The positions the entry at i of maps holds for letter L.
EntryPositions(i, L) ==
    IF maps[i + 1].none THEN {}
    ELSE IF L \in DOMAIN maps[i + 1].val THEN Range(maps[i + 1].val[L])
    ELSE {}

\* C9 as stated: the entry at every position i maps each letter L to all the
\* positions >= i at which the lower-case phrase holds L.
C9_AtOrAfter ==
    pc = "mapsdone" =>
        \A i \in 0..(Len(phrase) - 1) : \A L \in Letters :
            EntryPositions(i, L) = {j \in i..(Len(phrase) - 1) : phrase[j + 1] = L}

\* C9, amended: the entry at every letter position i maps each letter L to the
\* list of all the positions > i at which the lower-case phrase holds L, each
\* once, and has no key without such a position; the entry at a non-letter
\* position is None.
C9_StrictlyAfter ==
    pc = "mapsdone" =>
        \A i \in 0..(Len(phrase) - 1) :
            IF is_letter(phrase[i + 1])
            THEN /\ ~maps[i + 1].none
                 /\ DOMAIN maps[i + 1].val \subseteq Letters
                 /\ \A L \in DOMAIN maps[i + 1].val :
                       /\ maps[i + 1].val[L] # <<>>
                       /\ NoRepeat(maps[i + 1].val[L])
                 /\ \A L \in Letters :
                       EntryPositions(i, L) =
                           {j \in (i + 1)..(Len(phrase) - 1) : phrase[j + 1] = L}
            ELSE maps[i + 1] = None

C9_Witness ==
    /\ pc = "mapsdone"
    /\ Len(phrase) = 3
    /\ ~maps[1].none
    /\ \E L \in DOMAIN maps[1].val : Len(maps[1].val[L]) = 2

\* C7: a failure to open the dictionary never leaves main as an uncaught
\* exception.
C7_LoadFailureRecoverable ==
    ~(mainpc = "crashed" /\ exc \in {"FileNotFoundError", "PermissionError"})

====
